---- MODULE Spec2Model ----
(***************************************************************************)
(* Ticker Enrichment front end (frontend/src/App.tsx): the learned-alias   *)
(* boost of the preview pass, manual and bulk overrides, the risk          *)
(* classifier and the commit planner, as a state machine over the React    *)
(* state of App().                                                         *)
(*                                                                         *)
(* Strings are sequences of one-character strings, so that trim,           *)
(* toLowerCase, toUpperCase and includes are computed, not assumed.        *)
(* Scores are fixed-point thousandths (0.85 is 850).                       *)
(***************************************************************************)
EXTENDS Integers, Sequences, FiniteSets, TLC

(* ---------------------------------------------------------------- bounds *)
MaxScore == 1010
MaxCands == 3
MaxRows == 2
MaxInflight == 2

(* --------------------------------------------------------------- strings *)
\* null / undefined of a string-valued field
Null == <<"null">>

UpperChars == <<"A","B","C","D","E","F","G","H","I","J","K","L","M",
                "N","O","P","Q","R","S","T","U","V","W","X","Y","Z">>
LowerChars == <<"a","b","c","d","e","f","g","h","i","j","k","l","m",
                "n","o","p","q","r","s","t","u","v","w","x","y","z">>

LowerChar(c) ==
  IF \E i \in 1..Len(UpperChars) : UpperChars[i] = c
  THEN LowerChars[CHOOSE i \in 1..Len(UpperChars) : UpperChars[i] = c]
  ELSE c

UpperChar(c) ==
  IF \E i \in 1..Len(LowerChars) : LowerChars[i] = c
  THEN UpperChars[CHOOSE i \in 1..Len(LowerChars) : LowerChars[i] = c]
  ELSE c

toLowerCase(s) == [i \in 1..Len(s) |-> LowerChar(s[i])]

toUpperCase(s) == [i \in 1..Len(s) |-> UpperChar(s[i])]

RECURSIVE trimStart(_)
trimStart(s) ==
  IF s # <<>> /\ Head(s) = " " THEN trimStart(Tail(s)) ELSE s

RECURSIVE trimEnd(_)
trimEnd(s) ==
  IF s # <<>> /\ s[Len(s)] = " " THEN trimEnd(SubSeq(s, 1, Len(s) - 1)) ELSE s

trim(s) == trimEnd(trimStart(s))

\* s.includes(q)
includes(s, q) ==
  \E i \in 0..(Len(s) - Len(q)) : SubSeq(s, i + 1, i + Len(q)) = q

\* (s ?? "")
OrEmpty(s) == IF s = Null THEN <<>> ELSE s

\* a ?? b
Coalesce(a, b) == IF a = Null THEN b ELSE a

\* variant of norm: surrounding blanks are kept
normNoTrim(s) == toLowerCase(OrEmpty(s))

\* const norm = (s) => (s ?? "").toString().trim().toLowerCase()
norm(s) == toLowerCase(trim(OrEmpty(s)))

(* ---------------------------------------------------------------- scores *)
\* score?: number -- a candidate without a numeric score
NoScore == -1
IsNumber(sc) == sc # NoScore

LowThreshold == 850
MediumThreshold == 600
AliasBonus == 50
AliasCeiling == 999

Min(a, b) == IF a <= b THEN a ELSE b

(* ------------------------------------------------------- risk classifier *)
\* variant of riskOf: the comparisons are turned around
riskOfFlipped(score, source) ==
  IF ~IsNumber(score) THEN "HIGH"
  ELSE IF score < MediumThreshold THEN "LOW"
  ELSE IF score < LowThreshold THEN "MEDIUM"
  ELSE "HIGH"

\* variant of riskOf: 0.85 itself is not LOW
riskOfStrict(score, source) ==
  IF ~IsNumber(score) THEN "HIGH"
  ELSE IF score > LowThreshold THEN "LOW"
  ELSE IF score >= MediumThreshold THEN "MEDIUM"
  ELSE "HIGH"

\* function riskOf(score?: number, source?: string): "LOW" | "MEDIUM" | "HIGH"
riskOf(score, source) ==
  IF ~IsNumber(score) THEN "HIGH"
  ELSE IF score >= LowThreshold THEN "LOW"
  ELSE IF score >= MediumThreshold THEN "MEDIUM"
  ELSE "HIGH"

(* ------------------------------------------------------------ candidates *)
\* JS truthiness of a string-valued expression
Truthy(s) == s # Null /\ s # <<>>

\* source?: string -- a candidate without a source
NoSource == ""

\* type Candidate = { symbol, name, type?, score?, source? }
Cand(sym, sc, src) == [symbol |-> sym, score |-> sc, source |-> src]

\* Array.prototype.findIndex / find: the first of the positions that satisfy the
\* test, 0 for none (positions are 1-based here)
FirstIndex(hits) ==
  IF hits = {} THEN 0 ELSE CHOOSE i \in hits : \A j \in hits : i <= j

\* arr.splice(idx, 1) -- what is left of the array
RemoveAt(seq, idx) == SubSeq(seq, 1, idx - 1) \o SubSeq(seq, idx + 1, Len(seq))

\* aliases[nm] (undefined when there is no such key)
Lookup(map, key) == IF key \in DOMAIN map THEN map[key] ELSE Null

\* variant of MatchesLearned: a case-sensitive comparison
MatchesLearnedExact(c, learned) == c.symbol = learned

\* c.symbol?.toUpperCase() === learned.toUpperCase()
MatchesLearned(c, learned) ==
  c.symbol # Null /\ toUpperCase(c.symbol) = toUpperCase(learned)

\* variant of Bump: no ceiling
BumpUncapped(hit) ==
  [hit EXCEPT !.score = IF IsNumber(hit.score) THEN hit.score + AliasBonus ELSE hit.score]

\* { ...hit, score: typeof hit.score === "number" ? Math.min(hit.score + 0.05, 0.999) : hit.score }
Bump(hit) ==
  [hit EXCEPT !.score = IF IsNumber(hit.score)
                        THEN Min(hit.score + AliasBonus, AliasCeiling)
                        ELSE hit.score]

\* variant of ApplyAlias: the hit trades places with the first candidate
ApplyAliasSwap(al, nm, cands) ==
  LET learned == Lookup(al, nm)
      idx == IF Truthy(learned)
             THEN FirstIndex({i \in 1..Len(cands) : MatchesLearned(cands[i], learned)})
             ELSE 0
  IN IF Truthy(learned) /\ Len(cands) > 0 /\ idx >= 1
     THEN [i \in 1..Len(cands) |->
             IF i = 1 THEN Bump(cands[idx])
             ELSE IF i = idx THEN cands[1]
             ELSE cands[i]]
     ELSE cands

\* variant of ApplyAlias: a learned symbol that is no candidate empties the list
ApplyAliasDrop(al, nm, cands) ==
  LET learned == Lookup(al, nm)
      idx == IF Truthy(learned)
             THEN FirstIndex({i \in 1..Len(cands) : MatchesLearned(cands[i], learned)})
             ELSE 0
  IN IF Truthy(learned) /\ Len(cands) > 0
     THEN IF idx >= 1 THEN <<Bump(cands[idx])>> \o RemoveAt(cands, idx)
          ELSE <<>>
     ELSE cands

\* the learned-alias boost of one row's candidates (onChooseFile, inside data.map):
\* findIndex, splice(idx, 1), unshift of the bumped hit
ApplyAlias(al, nm, cands) ==
  LET learned == Lookup(al, nm)
      idx == IF Truthy(learned)
             THEN FirstIndex({i \in 1..Len(cands) : MatchesLearned(cands[i], learned)})
             ELSE 0
  IN IF Truthy(learned) /\ Len(cands) > 0 /\ idx >= 1
     THEN <<Bump(cands[idx])>> \o RemoveAt(cands, idx)
     ELSE cands

(* ------------------------------------------------------------------ rows *)
\* type PreviewRow: index, status, candidates, Name, Symbol, input: {Name, Symbol}
\* variant of NameOf: only the nested input is read
NameOfInputOnly(r) == r.inputName

\* r.Name ?? r.input?.Name
NameOf(r) == Coalesce(r.Name, r.inputName)

\* r.Symbol ?? r.input?.Symbol
SymbolOf(r) == Coalesce(r.Symbol, r.inputSymbol)

\* variant of NormalizeRow: a row whose candidates the alias reordered is relabelled
NormalizeRowMarking(r, al) ==
  [index       |-> r.index,
   status      |-> IF ApplyAlias(al, norm(NameOf(r)), r.candidates) # r.candidates
                   THEN "ENRICHED" ELSE r.status,
   candidates  |-> ApplyAlias(al, norm(NameOf(r)), r.candidates),
   Name        |-> NameOf(r),
   Symbol      |-> SymbolOf(r),
   inputName   |-> r.inputName,
   inputSymbol |-> r.inputSymbol]

\* one element of data.map((r, i) => ...): the normalized row with the alias boost
NormalizeRow(r, al) ==
  [index       |-> r.index,
   status      |-> r.status,
   candidates  |-> ApplyAlias(al, norm(NameOf(r)), r.candidates),
   Name        |-> NameOf(r),
   Symbol      |-> SymbolOf(r),
   inputName   |-> r.inputName,
   inputSymbol |-> r.inputSymbol]

Normalize(data, al) == [i \in 1..Len(data) |-> NormalizeRow(data[i], al)]

(* -------------------------------------------------------- commit planner *)
\* r.candidates?.find(c => c.symbol === to) -- position of the first exact match, 0 for none
FindExact(cands, to) == FirstIndex({i \in 1..Len(cands) : cands[i].symbol = to})

\* r.candidates?.[0]?.symbol
TopSymbol(r) == IF Len(r.candidates) > 0 THEN r.candidates[1].symbol ELSE Null

\* variant of Chosen: the top candidate of a FILLED row goes before the override
ChosenTopFirst(r, to) ==
  IF r.status = "FILLED" /\ Truthy(TopSymbol(r)) THEN TopSymbol(r)
  ELSE IF Truthy(to) THEN to ELSE <<>>

\* variant of Chosen: a FILLED row keeps the symbol it came with
ChosenOwnSymbol(r, to) ==
  IF Truthy(to) THEN to
  ELSE IF r.status = "FILLED" THEN Coalesce(r.Symbol, r.inputSymbol) ELSE <<>>

\* const chosen = to || (r.status === "FILLED" ? top?.symbol : "")
Chosen(r, to) ==
  IF Truthy(to) THEN to
  ELSE IF r.status = "FILLED" THEN TopSymbol(r) ELSE <<>>

\* sc / src: the overridden candidate's when there is an override, else the top one's
ChangeCand(r, to) ==
  LET k == IF Truthy(to) THEN FindExact(r.candidates, to)
           ELSE IF Len(r.candidates) > 0 THEN 1 ELSE 0
  IN IF k >= 1 THEN r.candidates[k] ELSE Cand(Null, NoScore, NoSource)

\* the PendingChange pushed for row r (openCommitPreview, loop body)
ChangeOf(r, to) ==
  LET c == ChangeCand(r, to)
  IN [index      |-> r.index,
      name       |-> OrEmpty(NameOf(r)),
      fromSymbol |-> OrEmpty(SymbolOf(r)),
      toSymbol   |-> Chosen(r, to),
      score      |-> c.score,
      source     |-> c.source,
      risk       |-> riskOf(c.score, c.source)]

\* variant of Contributes: any row with a candidate contributes
ContributesAnyStatus(r, to) == Truthy(to) \/ Len(r.candidates) > 0

\* if (!to && r.status !== "FILLED") continue; ... if (!chosen) continue;
Contributes(r, to) ==
  /\ Truthy(to) \/ r.status = "FILLED"
  /\ Truthy(Chosen(r, to))

\* the changes array before the sort, in row order
RECURSIVE CollectChanges(_, _)
CollectChanges(rs, ov) ==
  IF rs = <<>> THEN <<>>
  ELSE LET r == Head(rs)
           to == Lookup(ov, r.index)
       IN (IF Contributes(r, to) THEN <<ChangeOf(r, to)>> ELSE <<>>)
          \o CollectChanges(Tail(rs), ov)

\* const rk = { HIGH: 2, MEDIUM: 1, LOW: 0 }
rk(risk) == CASE risk = "HIGH" -> 2 [] risk = "MEDIUM" -> 1 [] OTHER -> 0

\* variant of CompareChanges: within equal risk the lower score goes first
CompareChangesAscending(a, b) ==
  LET d == rk(a.risk) - rk(b.risk)
  IN IF d # 0 THEN (IF d > 0 THEN -1 ELSE 1)
     ELSE a.score - b.score

\* the comparator of changes.sort: negative when a goes before b
CompareChanges(a, b) ==
  LET d == rk(a.risk) - rk(b.risk)
  IN IF d # 0 THEN (IF d > 0 THEN -1 ELSE 1)
     ELSE b.score - a.score   \* (b.score ?? -1) - (a.score ?? -1): NoScore is -1

\* Array.prototype.sort is stable: x goes before the first element it must precede
RECURSIVE InsertSorted(_, _)
InsertSorted(sorted, x) ==
  IF sorted = <<>> THEN <<x>>
  ELSE IF CompareChanges(x, Head(sorted)) < 0 THEN <<x>> \o sorted
  ELSE <<Head(sorted)>> \o InsertSorted(Tail(sorted), x)

RECURSIVE SortChanges(_)
SortChanges(cs) ==
  IF cs = <<>> THEN <<>>
  ELSE InsertSorted(SortChanges(SubSeq(cs, 1, Len(cs) - 1)), cs[Len(cs)])

\* const changes = []; for (...) changes.push(...); changes.sort(...)
BuildChanges(rs, ov) == SortChanges(CollectChanges(rs, ov))

(* ------------------------------------------------------------- overrides *)
\* next[key] = value on a copy of the object
Put(map, key, value) == [k \in DOMAIN map \cup {key} |-> IF k = key THEN value ELSE map[k]]

\* delete next[key]
Delete(map, key) == [k \in DOMAIN map \ {key} |-> map[k]]

\* rows.find(rr => rr.index === rowIndex): its name, null when there is no such row
NameOfIndex(rs, rowIndex) ==
  LET k == FirstIndex({i \in 1..Len(rs) : rs[i].index = rowIndex})
  IN IF k >= 1 THEN NameOf(rs[k]) ELSE Null

\* const nm = norm(...); if (nm) setAliases(a => ({ ...a, [nm]: value }))
Learn(al, name, value) ==
  LET nm == norm(name) IN IF Truthy(nm) THEN Put(al, nm, value) ELSE al

(* ---------------------------------------------------------------- filter *)
\* String(r.status) spelled out
StatusText(st) ==
  CASE st = "FILLED"    -> <<"F","I","L","L","E","D">>
    [] st = "AMBIGUOUS" -> <<"A","M","B","I","G","U","O","U","S">>
    [] st = "NOT_FOUND" -> <<"N","O","T","_","F","O","U","N","D">>
    [] st = "UNCHANGED" -> <<"U","N","C","H","A","N","G","E","D">>
    [] OTHER            -> <<"E","N","R","I","C","H","E","D">>

\* the predicate of rows.filter in `filtered`
Visible(r, q0, sf) ==
  LET q == toLowerCase(trim(q0))
  IN /\ sf = "ALL" \/ r.status = sf
     /\ \/ q = <<>>
        \/ includes(toLowerCase(OrEmpty(NameOf(r))), q)
        \/ includes(toLowerCase(OrEmpty(SymbolOf(r))), q)
        \/ includes(toLowerCase(StatusText(r.status)), q)
        \/ includes(toLowerCase(OrEmpty(TopSymbol(r))), q)

(* ------------------------------------------------------------ bulk apply *)
\* variant of BulkTakes: the threshold itself is not enough
BulkTakesAbove(r, minScore) ==
  /\ r.status \in {"FILLED", "AMBIGUOUS"}
  /\ Len(r.candidates) > 0
  /\ ~(IsNumber(r.candidates[1].score) /\ r.candidates[1].score <= minScore)

\* the test of one row inside the loop of bulkApplyTopCandidates
BulkTakes(r, minScore) ==
  /\ r.status \in {"FILLED", "AMBIGUOUS"}
  /\ Len(r.candidates) > 0
  /\ ~(IsNumber(r.candidates[1].score) /\ r.candidates[1].score < minScore)

\* for (const r of filtered) { ... }: overrides and aliases after the loop
RECURSIVE BulkLoop(_, _, _, _, _, _)
BulkLoop(rs, ov, al, q0, sf, minScore) ==
  IF rs = <<>> THEN [ov |-> ov, al |-> al]
  ELSE LET r == Head(rs)
       IN IF Visible(r, q0, sf) /\ BulkTakes(r, minScore)
          THEN BulkLoop(Tail(rs),
                        Put(ov, r.index, r.candidates[1].symbol),
                        Learn(al, NameOf(r), r.candidates[1].symbol),
                        q0, sf, minScore)
          ELSE BulkLoop(Tail(rs), ov, al, q0, sf, minScore)

(* ------------------------------------------------- preview service (API) *)
\* The resolver behind POST /files/preview-file is not part of the front end;
\* it is modelled from the written design of the Row Resolver.
\* A holding row of an uploaded file: [Name, Symbol, found], where found is the
\* ordered candidate list the aggregator yields for the name.
Holding(name, symbol, found) == [Name |-> name, Symbol |-> symbol, found |-> found]

Blank(s) == trim(OrEmpty(s)) = <<>>

\* variant of ResolveStatus: the blank Name is looked at before the Symbol
ResolveStatusNameFirst(h) ==
  IF Blank(h.Name) THEN "UNCHANGED"
  ELSE IF ~Blank(h.Symbol) THEN "FILLED"
  ELSE IF h.found = <<>> THEN "NOT_FOUND"
  ELSE "AMBIGUOUS"

\* Row Resolver, transition logic per row: the first rule that applies
ResolveStatus(h) ==
  IF ~Blank(h.Symbol) THEN "FILLED"
  ELSE IF Blank(h.Name) THEN "UNCHANGED"
  ELSE IF h.found = <<>> THEN "NOT_FOUND"
  ELSE "AMBIGUOUS"

\* the candidates the resolver reports: none when nothing was looked up
ResolveCandidates(h) ==
  IF ResolveStatus(h) = "UNCHANGED" THEN <<>> ELSE h.found

\* the JSON body of a 200 response; form "input" nests Name/Symbol under input,
\* form "flat" carries them at the top level of each row
ServerPreview(f, form) ==
  [i \in 1..Len(f) |->
     [index       |-> i - 1,
      status      |-> ResolveStatus(f[i]),
      candidates  |-> ResolveCandidates(f[i]),
      Name        |-> IF form = "flat" THEN f[i].Name ELSE Null,
      Symbol      |-> IF form = "flat" THEN f[i].Symbol ELSE Null,
      inputName   |-> IF form = "flat" THEN Null ELSE f[i].Name,
      inputSymbol |-> IF form = "flat" THEN Null ELSE f[i].Symbol]]

Forms == {"input", "flat"}

(* ---------------------------------------------------- candidate aggregator *)
\* The aggregator runs on the server as well; it is modelled from its written
\* algorithm. The trusted sources are the ones the README lists.
\* variant of TrustedSources: only the first listed provider is trusted
TrustedSourcesFirstOnly == {"FINNHUB"}

\* "Source trust bonus for FINNHUB, POLYGON, YFINANCE, LOCAL (+0.05 capped)"
TrustedSources == {"FINNHUB", "POLYGON", "YFINANCE", "LOCAL"}

TrustBonus == 50
TrustCeiling == 999

\* step 3: base score plus the trust bonus, capped at the ceiling; a candidate
\* without a base score has no final score either
FinalScore(base, source) ==
  IF ~IsNumber(base) THEN base
  ELSE IF source \in TrustedSources THEN Min(base + TrustBonus, TrustCeiling)
  ELSE base

\* step 2: one instance per normalized symbol, the one with the highest base
\* score (the first seen among equals), in order of first appearance
RECURSIVE DedupeFrom(_, _)
DedupeFrom(raw, i) ==
  LET kept == \A j \in 1..Len(raw) :
                (j # i /\ toUpperCase(raw[j].symbol) = toUpperCase(raw[i].symbol)) =>
                  \/ raw[j].score < raw[i].score
                  \/ raw[j].score = raw[i].score /\ i < j
  IN IF i > Len(raw) THEN <<>>
     ELSE (IF kept THEN <<raw[i]>> ELSE <<>>) \o DedupeFrom(raw, i + 1)

Dedupe(raw) == DedupeFrom(raw, 1)

RECURSIVE Alphabetical(_, _)
\* s comes strictly before t in alphabetical order
Alphabetical(s, t) ==
  LET CharRank(c) ==
        IF \E i \in 1..Len(UpperChars) : UpperChars[i] = UpperChar(c)
        THEN CHOOSE i \in 1..Len(UpperChars) : UpperChars[i] = UpperChar(c)
        ELSE 0
  IN IF t = <<>> THEN FALSE
     ELSE IF s = <<>> THEN TRUE
     ELSE IF CharRank(Head(s)) # CharRank(Head(t)) THEN CharRank(Head(s)) < CharRank(Head(t))
     ELSE Alphabetical(Tail(s), Tail(t))

\* step 4: descending by final score, then trusted before untrusted, then by symbol
RanksBefore(a, b) ==
  \/ a.score > b.score
  \/ /\ a.score = b.score
     /\ \/ a.source \in TrustedSources /\ b.source \notin TrustedSources
        \/ /\ (a.source \in TrustedSources) = (b.source \in TrustedSources)
           /\ Alphabetical(a.symbol, b.symbol)

RECURSIVE InsertRanked(_, _)
InsertRanked(sorted, x) ==
  IF sorted = <<>> THEN <<x>>
  ELSE IF RanksBefore(x, Head(sorted)) THEN <<x>> \o sorted
  ELSE <<Head(sorted)>> \o InsertRanked(Tail(sorted), x)

RECURSIVE SortRanked(_)
SortRanked(cs) ==
  IF cs = <<>> THEN <<>>
  ELSE InsertRanked(SortRanked(SubSeq(cs, 1, Len(cs) - 1)), cs[Len(cs)])

\* the ordered candidate list for one name, from the raw candidates of all adapters
Aggregate(raw) ==
  LET cs == Dedupe(raw)
  IN SortRanked([i \in 1..Len(cs) |->
                   Cand(cs[i].symbol, FinalScore(cs[i].score, cs[i].source), cs[i].source)])

(* ----------------------------------------------------------------- state *)
VARIABLES
  file,            \* useState<File | null>: <<>> for null, <<f>> for the file with holding rows f
  rows,            \* useState<PreviewRow[]>
  overrides,       \* useState<Record<number, string>>
  aliases,         \* useLocalStorage("learned.aliases")
  error,           \* useState<string | null>, "" for null
  loading,         \* useState(false)
  statusFilter,    \* useLocalStorage("prefs.statusFilter")
  query,           \* useLocalStorage("prefs.query")
  qDebounced,      \* useDebounced(query, 180)
  bulkMinScore,    \* useState(0.0)
  drawerRow,       \* useState<PreviewRow | null>: <<>> for null, <<r>> for row r
  pendingChanges,  \* useState<PendingChange[]>
  commitOpen,      \* commitPreview.isOpen
  inflight,        \* fetches awaiting their response, each with what its closure captured
  logs,            \* useState<LogEntry[]>, kept as whether it holds entries
  lastRun,         \* useState<LastRun>: the fields set so far
  useLocalMaps     \* useLocalStorage("prefs.useLocalMaps")

vars == <<file, rows, overrides, aliases, error, loading, statusFilter, query,
          qDebounced, bulkMinScore, drawerRow, pendingChanges, commitOpen, inflight,
          logs, lastRun, useLocalMaps>>

runVars == <<logs, lastRun, useLocalMaps>>

filterVars == <<statusFilter, query, qDebounced, bulkMinScore>>

NoFile == <<>>
NoRow == <<>>
EmptyMap == <<>>
NoError == ""

Request(kind, f, al, ov) == [kind |-> kind, file |-> f, aliases |-> al, overrides |-> ov]

\* the activity log: empty, or holding entries
NoLogs == <<>>
\* pushLog: setLogs((prev) => [...prev, entry])
pushLog(prev) == <<"entries">>

\* setLastRun({ startedAt, filename, sizeBytes, mode })
RunStarted(f, localMaps) ==
  [filename |-> f, mode |-> IF localMaps THEN "API+LOCAL" ELSE "API-FIRST"]

(* ------------------------------------------------------- file -> preview *)
\* variant of ChooseFile: the learned aliases are cleared with the overrides
ChooseFileForgetting(f) ==
  /\ Len(inflight) < MaxInflight
  /\ drawerRow = NoRow /\ ~commitOpen
  /\ file' = <<f>>
  /\ rows' = <<>>
  /\ overrides' = EmptyMap
  /\ aliases' = EmptyMap
  /\ error' = NoError
  /\ loading' = TRUE
  /\ inflight' = Append(inflight, Request("preview", f, aliases, EmptyMap))
  /\ UNCHANGED <<filterVars, drawerRow, pendingChanges, commitOpen>>
  /\ logs' = pushLog(logs)
  /\ lastRun' = RunStarted(f, useLocalMaps)
  /\ UNCHANGED useLocalMaps

\* onChooseFile up to the await of fetch, a file having been picked
ChooseFile(f) ==
  /\ Len(inflight) < MaxInflight
  /\ drawerRow = NoRow /\ ~commitOpen
  /\ file' = <<f>>
  /\ rows' = <<>>
  /\ overrides' = EmptyMap
  /\ error' = NoError
  /\ loading' = TRUE
  /\ inflight' = Append(inflight, Request("preview", f, aliases, EmptyMap))
  /\ UNCHANGED <<aliases, filterVars, drawerRow, pendingChanges, commitOpen>>
  /\ logs' = pushLog(logs)
  /\ lastRun' = RunStarted(f, useLocalMaps)
  /\ UNCHANGED useLocalMaps

\* onChooseFile with the file dialog left empty: if (!f) return
ChooseNoFile ==
  /\ drawerRow = NoRow /\ ~commitOpen
  /\ file' = NoFile
  /\ rows' = <<>>
  /\ overrides' = EmptyMap
  /\ error' = NoError
  /\ UNCHANGED <<aliases, loading, filterVars, drawerRow, pendingChanges, commitOpen, inflight>>
  /\ UNCHANGED runVars

\* onChooseFile after the await, response ok: normalize, boost by alias, setRows
PreviewOk(k, form) ==
  /\ k \in 1..Len(inflight)
  /\ inflight[k].kind = "preview"
  /\ rows' = Normalize(ServerPreview(inflight[k].file, form), inflight[k].aliases)
  /\ loading' = FALSE
  /\ inflight' = RemoveAt(inflight, k)
  /\ UNCHANGED <<file, overrides, aliases, error, filterVars, drawerRow,
                 pendingChanges, commitOpen>>
  /\ logs' = pushLog(logs)
  /\ lastRun' = Put(lastRun, "rows", Len(rows'))
  /\ UNCHANGED useLocalMaps

\* onChooseFile after the await, !resp.ok or an exception: setError, finally setLoading(false)
PreviewFails(k, msg) ==
  /\ k \in 1..Len(inflight)
  /\ inflight[k].kind = "preview"
  /\ error' = msg
  /\ loading' = FALSE
  /\ inflight' = RemoveAt(inflight, k)
  /\ UNCHANGED <<file, rows, overrides, aliases, filterVars, drawerRow,
                 pendingChanges, commitOpen>>
  /\ logs' = pushLog(logs)
  /\ UNCHANGED <<lastRun, useLocalMaps>>

(* ------------------------------------------------------------- overrides *)
\* setOverrideForRow(rowIndex, value): the next overrides and aliases
OverridesAfterSet(ov, rowIndex, value) ==
  IF ~Truthy(value) THEN Delete(ov, rowIndex) ELSE Put(ov, rowIndex, value)

\* variant of AliasesAfterSet: clearing the override forgets the alias of the row's name
AliasesAfterSetForgetting(al, rs, rowIndex, value) ==
  IF ~Truthy(value) THEN Delete(al, norm(NameOfIndex(rs, rowIndex)))
  ELSE Learn(al, NameOfIndex(rs, rowIndex), value)

\* variant of AliasesAfterSet: the new mapping replaces the whole store
AliasesAfterSetAlone(al, rs, rowIndex, value) ==
  IF ~Truthy(value) THEN al ELSE Learn(EmptyMap, NameOfIndex(rs, rowIndex), value)

\* if (!value) no alias is touched; else nm = norm(name of the row), if (nm) setAliases
AliasesAfterSet(al, rs, rowIndex, value) ==
  IF ~Truthy(value) THEN al ELSE Learn(al, NameOfIndex(rs, rowIndex), value)

setOverrideForRow(rowIndex, value) ==
  /\ overrides' = OverridesAfterSet(overrides, rowIndex, value)
  /\ aliases' = AliasesAfterSet(aliases, rows, rowIndex, value)
  /\ logs' = pushLog(logs)

\* the symbols a row's <Select> / the drawer's <RadioGroup> offers: "" and each candidate's
Options(r) == {<<>>} \cup {r.candidates[j].symbol : j \in 1..Len(r.candidates)}

\* the Override <Select> of a table row: onChange={(e) => setOverrideForRow(rowKey, e.target.value)}
SelectOverride(i, value) ==
  /\ drawerRow = NoRow /\ ~commitOpen
  /\ i \in 1..Len(rows)
  /\ Visible(rows[i], qDebounced, statusFilter)
  /\ rows[i].status # "UNCHANGED" /\ Len(rows[i].candidates) > 0     \* canOverride
  /\ value \in Options(rows[i])
  /\ setOverrideForRow(rows[i].index, value)
  /\ UNCHANGED <<file, rows, error, loading, filterVars, drawerRow,
                 pendingChanges, commitOpen, inflight>>
  /\ UNCHANGED <<lastRun, useLocalMaps>>

\* <Tr onClick={() => setDrawerRow(r)}>
OpenDrawer(i) ==
  /\ drawerRow = NoRow /\ ~commitOpen
  /\ i \in 1..Len(rows)
  /\ Visible(rows[i], qDebounced, statusFilter)
  /\ drawerRow' = <<rows[i]>>
  /\ UNCHANGED <<file, rows, overrides, aliases, error, loading, filterVars,
                 pendingChanges, commitOpen, inflight>>
  /\ UNCHANGED runVars

\* the drawer's Apply: onSetOverride(value); onClose()
DrawerApply(value) ==
  /\ drawerRow # NoRow
  /\ value \in Options(drawerRow[1])
  /\ setOverrideForRow(drawerRow[1].index, value)
  /\ drawerRow' = NoRow
  /\ UNCHANGED <<file, rows, error, loading, filterVars, pendingChanges,
                 commitOpen, inflight>>
  /\ UNCHANGED <<lastRun, useLocalMaps>>

\* the drawer's onClose
CloseDrawer ==
  /\ drawerRow # NoRow
  /\ drawerRow' = NoRow
  /\ UNCHANGED <<file, rows, overrides, aliases, error, loading, filterVars,
                 pendingChanges, commitOpen, inflight>>
  /\ UNCHANGED runVars

\* bulkApplyTopCandidates (the Apply button, or the A key)
BulkApply ==
  LET out == BulkLoop(rows, overrides, aliases, qDebounced, statusFilter, bulkMinScore)
  IN /\ overrides' = out.ov
     /\ aliases' = out.al
     /\ UNCHANGED <<file, rows, error, loading, filterVars, drawerRow,
                    pendingChanges, commitOpen, inflight>>
     /\ logs' = pushLog(logs)
     /\ UNCHANGED <<lastRun, useLocalMaps>>

(* ---------------------------------------------------------------- filter *)
StatusFilters == {"ALL", "FILLED", "AMBIGUOUS"}
Queries == {<<>>, <<"A","b">>, <<" ","f","i">>}
\* <Slider min={0} max={1} step={0.05}>: the positions used
MinScores == {0, 800, 850}

\* <Badge onClick={() => setStatusFilter(s)}>
SetStatusFilter(sf) ==
  /\ drawerRow = NoRow /\ ~commitOpen
  /\ sf \in StatusFilters /\ sf # statusFilter
  /\ statusFilter' = sf
  /\ UNCHANGED <<file, rows, overrides, aliases, error, loading, query, qDebounced,
                 bulkMinScore, drawerRow, pendingChanges, commitOpen, inflight>>
  /\ UNCHANGED runVars

\* <Input id="search-box" onChange={(e) => setQuery(e.target.value)}>
SetQuery(q) ==
  /\ drawerRow = NoRow /\ ~commitOpen
  /\ q \in Queries /\ q # query
  /\ query' = q
  /\ UNCHANGED <<file, rows, overrides, aliases, error, loading, statusFilter, qDebounced,
                 bulkMinScore, drawerRow, pendingChanges, commitOpen, inflight>>
  /\ UNCHANGED runVars

\* useDebounced: the timeout fires, setV(value)
Debounce ==
  /\ qDebounced # query
  /\ qDebounced' = query
  /\ UNCHANGED <<file, rows, overrides, aliases, error, loading, statusFilter, query,
                 bulkMinScore, drawerRow, pendingChanges, commitOpen, inflight>>
  /\ UNCHANGED runVars

\* <Slider onChange={setBulkMinScore}>
SetBulkMinScore(m) ==
  /\ drawerRow = NoRow /\ ~commitOpen
  /\ Len(rows) > 0
  /\ m \in MinScores /\ m # bulkMinScore
  /\ bulkMinScore' = m
  /\ UNCHANGED <<file, rows, overrides, aliases, error, loading, statusFilter, query,
                 qDebounced, drawerRow, pendingChanges, commitOpen, inflight>>
  /\ UNCHANGED runVars

(* ---------------------------------------------------------------- commit *)
\* variant of OpenCommitPreview: the changes of the previous run are kept in the array
OpenCommitPreviewAppending ==
  IF Len(rows) = 0
  THEN UNCHANGED vars
  ELSE /\ pendingChanges' = SortChanges(pendingChanges \o CollectChanges(rows, overrides))
       /\ commitOpen' = TRUE
       /\ UNCHANGED <<file, rows, overrides, aliases, error, loading, filterVars,
                      drawerRow, inflight>>
       /\ UNCHANGED runVars

\* variant of OpenCommitPreview: no test of rows.length
OpenCommitPreviewUnguarded ==
  /\ pendingChanges' = BuildChanges(rows, overrides)
  /\ commitOpen' = TRUE
  /\ UNCHANGED <<file, rows, overrides, aliases, error, loading, filterVars,
                 drawerRow, inflight>>
  /\ UNCHANGED runVars

\* openCommitPreview (the button, or Ctrl/Cmd+Enter): if (!rows.length) { toast; return };
\* build, sort, setPendingChanges, onOpen
OpenCommitPreview ==
  IF Len(rows) = 0
  THEN UNCHANGED vars
  ELSE /\ pendingChanges' = BuildChanges(rows, overrides)
       /\ commitOpen' = TRUE
       /\ UNCHANGED <<file, rows, overrides, aliases, error, loading, filterVars,
                      drawerRow, inflight>>
       /\ UNCHANGED runVars

\* commitPreview.onClose (Cancel, the close button)
CloseCommitPreview ==
  /\ commitOpen
  /\ commitOpen' = FALSE
  /\ UNCHANGED <<file, rows, overrides, aliases, error, loading, filterVars,
                 drawerRow, pendingChanges, inflight>>
  /\ UNCHANGED runVars

\* commitAndDownload (the Confirm button of the commit preview) up to the await of
\* fetch: if (!file) { toast; pushLog; return }; setLoading(true); pushLog; POST
CommitAndDownload ==
  /\ commitOpen
  /\ logs' = pushLog(logs)
  /\ IF file = NoFile
     THEN UNCHANGED <<file, rows, overrides, aliases, error, loading, filterVars,
                      drawerRow, pendingChanges, commitOpen, inflight>>
     ELSE /\ Len(inflight) < MaxInflight
          /\ loading' = TRUE
          /\ inflight' = Append(inflight, Request("commit", file[1], EmptyMap, overrides))
          /\ UNCHANGED <<file, rows, overrides, aliases, error, filterVars, drawerRow,
                         pendingChanges, commitOpen>>
  /\ UNCHANGED <<lastRun, useLocalMaps>>

\* commitAndDownload after the await: download, or setError; finally setLoading(false), onClose
CommitResponse(k, msg) ==
  /\ k \in 1..Len(inflight)
  /\ inflight[k].kind = "commit"
  /\ error' = IF msg = NoError THEN error ELSE msg
  /\ loading' = FALSE
  /\ commitOpen' = FALSE
  /\ inflight' = RemoveAt(inflight, k)
  /\ UNCHANGED <<file, rows, overrides, aliases, filterVars, drawerRow, pendingChanges>>
  /\ logs' = pushLog(logs)
  /\ lastRun' = Put(lastRun, "commitDurationMs", "ms")
  /\ UNCHANGED useLocalMaps

\* variant of ResetAll: the learned aliases are cleared as well
ResetAllForgetting ==
  /\ file' = NoFile
  /\ rows' = <<>>
  /\ overrides' = EmptyMap
  /\ aliases' = EmptyMap
  /\ error' = NoError
  /\ query' = <<>>
  /\ statusFilter' = "ALL"
  /\ logs' = NoLogs
  /\ lastRun' = EmptyMap
  /\ UNCHANGED <<loading, qDebounced, bulkMinScore, drawerRow,
                 pendingChanges, commitOpen, inflight, useLocalMaps>>

\* resetAll (the Reset button, or the R key)
ResetAll ==
  /\ file' = NoFile
  /\ rows' = <<>>
  /\ overrides' = EmptyMap
  /\ error' = NoError
  /\ query' = <<>>
  /\ statusFilter' = "ALL"
  /\ UNCHANGED <<aliases, loading, qDebounced, bulkMinScore, drawerRow,
                 pendingChanges, commitOpen, inflight>>
  /\ logs' = NoLogs
  /\ lastRun' = EmptyMap
  /\ UNCHANGED useLocalMaps

(* ----------------------------------------------- preferences and the log *)
\* the Local Maps <Switch>, or Ctrl/Cmd+L: setUseLocalMaps(v => !v)
ToggleLocalMaps ==
  /\ useLocalMaps' = ~useLocalMaps
  /\ UNCHANGED <<file, rows, overrides, aliases, error, loading, filterVars, drawerRow,
                 pendingChanges, commitOpen, inflight, logs, lastRun>>

\* <ActivityLog onClear={() => setLogs([])}>
ClearLogs ==
  /\ drawerRow = NoRow /\ ~commitOpen
  /\ logs # NoLogs
  /\ logs' = NoLogs
  /\ UNCHANGED <<file, rows, overrides, aliases, error, loading, filterVars, drawerRow,
                 pendingChanges, commitOpen, inflight, lastRun, useLocalMaps>>

(* ------------------------------------------------------------ input data *)
SymX == <<"X">>
SymXLow == <<"x">>
SymY == <<"Y">>
SymZ == <<"Z">>
SymW == <<"W">>

NameAb == <<"A","b">>
NameAbPadded == <<" ","a","B"," ">>
NameCo == <<"C","o">>
NameSpaces == <<" ">>

Sources == {"FINNHUB", "POLYGON", NoSource}

\* two uploaded spreadsheets
FileA ==
  << Holding(NameAb, Null, <<Cand(SymX, 930, "FINNHUB"), Cand(SymY, 410, "POLYGON")>>),
     Holding(NameAbPadded, SymZ, <<Cand(SymY, 700, "POLYGON")>>) >>

FileB ==
  << Holding(NameCo, Null, <<>>),
     Holding(NameAb, <<>>, <<Cand(SymY, 880, "POLYGON"), Cand(SymXLow, NoScore, NoSource)>>),
     Holding(NameSpaces, Null, <<Cand(SymZ, 500, "FINNHUB")>>) >>

Files == {FileA, FileB}

FailureMessages == {"Preview failed: 500", "Failed to fetch"}
CommitOutcomes == {NoError, "Commit failed: 500"}

(* --------------------------------------------------- the application *)
Init ==
  /\ file = NoFile
  /\ rows = <<>>
  /\ overrides = EmptyMap
  /\ aliases = EmptyMap
  /\ error = NoError
  /\ loading = FALSE
  /\ statusFilter = "ALL"
  /\ query = <<>>
  /\ qDebounced = <<>>
  /\ bulkMinScore = 0
  /\ drawerRow = NoRow
  /\ pendingChanges = <<>>
  /\ commitOpen = FALSE
  /\ inflight = <<>>
  /\ logs = NoLogs
  /\ lastRun = EmptyMap
  /\ useLocalMaps = FALSE

Next ==
  \/ \E f \in Files : ChooseFile(f)
  \/ ChooseNoFile
  \/ \E k \in 1..MaxInflight : PreviewOk(k, "input")
  \/ \E k \in 1..MaxInflight, msg \in FailureMessages : PreviewFails(k, msg)
  \/ \E i \in 1..3, value \in {<<>>, SymX, SymXLow, SymY, SymZ} : SelectOverride(i, value)
  \/ \E i \in 1..3 : OpenDrawer(i)
  \/ \E value \in {<<>>, SymX, SymXLow, SymY, SymZ} : DrawerApply(value)
  \/ CloseDrawer
  \/ BulkApply
  \/ \E sf \in StatusFilters : SetStatusFilter(sf)
  \/ \E q \in Queries : SetQuery(q)
  \/ Debounce
  \/ \E m \in MinScores : SetBulkMinScore(m)
  \/ OpenCommitPreview
  \/ CloseCommitPreview
  \/ CommitAndDownload
  \/ \E k \in 1..MaxInflight, msg \in CommitOutcomes : CommitResponse(k, msg)
  \/ ResetAll
  \/ ToggleLocalMaps
  \/ ClearLogs

Spec == Init /\ [][Next]_vars

(* ------------------------------------------ input domains of the functions *)
\* sequences of length at most n over S
SeqsUpTo(S, n) == UNION {[1..k -> S] : k \in 0..n}

\* what the aggregator hands out: one entry per ticker (case-insensitively),
\* highest score first, entries without a score last
Aggregated(cands) ==
  /\ \A i, j \in 1..Len(cands) :
       i # j => toUpperCase(cands[i].symbol) # toUpperCase(cands[j].symbol)
  /\ \A i \in 1..(Len(cands) - 1) : cands[i].score >= cands[i + 1].score

\* partial maps from a set of keys to a set of values
Maps(K, V) == UNION {[D -> V] : D \in SUBSET K}

\* the last-run record of a session that chose f and holds the rows rs
LastRunOf(f, rs) ==
  IF f = NoFile THEN EmptyMap
  ELSE IF rs = <<>> THEN RunStarted(f[1], FALSE)
  ELSE Put(RunStarted(f[1], FALSE), "rows", Len(rs))

\* a session with the log cleared and Local Maps off
DefaultsExcept(f, rs, ov, al, infl) ==
  /\ file = f
  /\ rows = rs
  /\ overrides = ov
  /\ aliases = al
  /\ inflight = infl
  /\ error = NoError
  /\ loading = (infl # <<>>)
  /\ statusFilter = "ALL"
  /\ query = <<>>
  /\ qDebounced = <<>>
  /\ bulkMinScore = 0
  /\ drawerRow = NoRow
  /\ pendingChanges = <<>>
  /\ commitOpen = FALSE
  /\ logs = NoLogs
  /\ lastRun = LastRunOf(f, rs)
  /\ useLocalMaps = FALSE

(* --------------------------------------------- the risk classifier alone *)
\* one FILLED row whose only candidate has any score (or none) and any source
RiskFile(sc, src) == << Holding(NameAb, SymX, <<Cand(SymX, sc, src)>>) >>

InitRisk ==
  \E sc \in {NoScore} \cup 0..MaxScore, src \in Sources :
    DefaultsExcept(<<RiskFile(sc, src)>>,
                   Normalize(ServerPreview(RiskFile(sc, src), "input"), EmptyMap),
                   EmptyMap, EmptyMap, <<>>)

NextRisk == OpenCommitPreview

SpecRisk == InitRisk /\ [][NextRisk]_vars

(* ------------------------------------------------ the trust bonus alone *)
\* what the adapters report for one name: a few raw candidates, each with a
\* base score between 0 and the ceiling and a source, listed or not
RawCandidates ==
  SeqsUpTo({Cand(sym, sc, src) : sym \in {SymX, SymY},
                                 sc \in {400, 900, 960, TrustCeiling},
                                 src \in {"FINNHUB", "POLYGON", "OPENFIGI"}},
           MaxCands - 1)

\* one row without Symbol; the raw candidates are kept beside the aggregate
TrustFile(raw) == << Holding(NameAb, Null, Aggregate(raw)) @@ [raw |-> raw] >>

InitTrust ==
  \E raw \in RawCandidates :
    DefaultsExcept(<<TrustFile(raw)>>, <<>>, EmptyMap, EmptyMap,
                   <<Request("preview", TrustFile(raw), EmptyMap, EmptyMap)>>)

NextTrust ==
  \/ \E k \in 1..Len(inflight), form \in Forms : PreviewOk(k, form)
  \/ BulkApply
  \/ OpenCommitPreview
  \/ CloseCommitPreview

SpecTrust == InitTrust /\ [][NextTrust]_vars

(* ------------------------------------------------- the alias boost alone *)
AliasCandPool ==
  {Cand(sym, sc, "FINNHUB") : sym \in {SymX, SymXLow, SymY, SymZ, SymW},
                              sc \in {NoScore, 400, 960}}

AliasCandLists == {cs \in SeqsUpTo(AliasCandPool, MaxCands) : Aggregated(cs)}

AliasHoldings ==
  {Holding(nm, sym, cs) : nm \in {NameAbPadded, NameCo},
                          sym \in {Null, SymZ},
                          cs \in AliasCandLists}

AliasStores ==
  Maps({<<"a","b">>, <<"c","o">>}, {SymX, SymXLow})

\* a one-row file has been chosen and its preview request is in flight
InitAlias ==
  \E h \in AliasHoldings, al \in AliasStores :
    DefaultsExcept(<< <<h>> >>, <<>>, EmptyMap, al,
                   <<Request("preview", <<h>>, al, EmptyMap)>>)

NextAlias == \E form \in Forms : PreviewOk(1, form)

SpecAlias == InitAlias /\ [][NextAlias]_vars

(* ------------------------------------------------ the commit planner alone *)
CommitFounds ==
  { <<>>,
    <<Cand(SymZ, 900, "FINNHUB")>>,
    <<Cand(SymX, 700, "POLYGON"), Cand(SymZ, 500, "FINNHUB")>>,
    <<Cand(SymY, 700, "FINNHUB"), Cand(SymX, NoScore, NoSource)>> }

CommitHoldings ==
  {Holding(nm, sym, cs) : nm \in {NameAb, <<>>}, sym \in {Null, SymZ}, cs \in CommitFounds}

CommitFiles == SeqsUpTo(CommitHoldings, MaxRows) \ {<<>>}

\* a preview has completed for the file; the overrides are any the user may hold,
\* a symbol that is none of the row's candidates (kept from earlier rows) included
InitCommit ==
  \E f \in CommitFiles :
    \E ov \in Maps(0..(Len(f) - 1), {SymX, SymW}) :
      DefaultsExcept(<<f>>, Normalize(ServerPreview(f, "input"), EmptyMap),
                     ov, EmptyMap, <<>>)

NextCommit == OpenCommitPreview

SpecCommit == InitCommit /\ [][NextCommit]_vars

(* ------------------------------------------- the order of the change-set *)
\* scores on both sides of each tier boundary, and a missing one
OrderScores == {NoScore, 300, 500, 600, 700, 850, 900}

\* rows that came with a Symbol: each proposes its top candidate, or the
\* overridden one
OrderHoldings ==
  {Holding(NameAb, SymZ, <<Cand(SymY, sc, "FINNHUB")>>) : sc \in OrderScores}
  \cup {Holding(NameCo, SymZ, <<Cand(SymY, 700, "POLYGON"), Cand(SymX, 300, "FINNHUB")>>)}

OrderFiles == SeqsUpTo(OrderHoldings, MaxRows) \ {<<>>}

InitOrder ==
  \E f \in OrderFiles :
    \E ov \in Maps(0..(Len(f) - 1), {SymX}) :
      DefaultsExcept(<<f>>, Normalize(ServerPreview(f, "input"), EmptyMap),
                     ov, EmptyMap, <<>>)

\* the commit preview is opened, cancelled, opened again
NextOrder ==
  \/ OpenCommitPreview
  \/ CloseCommitPreview

SpecOrder == InitOrder /\ [][NextOrder]_vars

(* ------------------------------------------------- previews that fail *)
\* the state the user holds before choosing a file: FileA previewed, one override
PriorRows == Normalize(ServerPreview(FileA, "input"), EmptyMap)
PriorOverrides == Put(EmptyMap, 0, SymY)

InitFail ==
  \E al \in AliasStores :
    DefaultsExcept(<<FileA>>, PriorRows, PriorOverrides, al, <<>>)

\* files are chosen and every preview request fails
NextFail ==
  \/ \E f \in Files : ChooseFile(f)
  \/ \E k \in 1..MaxInflight, msg \in FailureMessages : PreviewFails(k, msg)

SpecFail == InitFail /\ [][NextFail]_vars

(* ------------------------------------------------------ previews alone *)
\* files are chosen (or the dialog is left empty) and the responses arrive, ok or not
NextPreview ==
  \/ \E f \in Files : ChooseFile(f)
  \/ ChooseNoFile
  \/ \E k \in 1..MaxInflight, form \in Forms : PreviewOk(k, form)
  \/ \E k \in 1..MaxInflight, msg \in FailureMessages : PreviewFails(k, msg)

SpecPreview == InitFail /\ [][NextPreview]_vars

(* ------------------------------------------------------- the commit path *)
\* nothing chosen yet, or a file previewed with any overrides
InitGuard ==
  \/ DefaultsExcept(NoFile, <<>>, EmptyMap, EmptyMap, <<>>)
  \/ \E f \in Files :
       \E ov \in Maps({0, 1}, {SymY}) :
         DefaultsExcept(<<f>>, Normalize(ServerPreview(f, "input"), EmptyMap),
                        ov, EmptyMap, <<>>)

\* the commit preview is opened and cancelled, a commit is confirmed and answered,
\* everything is reset
NextGuard ==
  \/ OpenCommitPreview
  \/ CloseCommitPreview
  \/ CommitAndDownload
  \/ \E k \in 1..MaxInflight, msg \in CommitOutcomes : CommitResponse(k, msg)
  \/ ResetAll

SpecGuard == InitGuard /\ [][NextGuard]_vars

(* ------------------------------------- keys pressed over the commit preview *)
\* the commit path, with the A key (bulk apply) and the R key (reset) of the
\* window's keydown listener, which is not detached while the preview is open
NextConfirm ==
  \/ NextGuard
  \/ BulkApply

SpecConfirm == InitGuard /\ [][NextConfirm]_vars

(* ---------------------------------------------------- the statuses alone *)
\* input rows with every way of leaving Name or Symbol blank
ResolveHoldings ==
  {Holding(nm, sym, cs) : nm \in {NameAb, Null, <<>>, NameSpaces},
                          sym \in {Null, NameSpaces, SymZ},
                          cs \in {<<>>, <<Cand(SymY, 700, "POLYGON")>>}}

ResolveFiles == SeqsUpTo(ResolveHoldings, MaxRows) \ {<<>>}

\* a file has been chosen and its preview request is in flight
InitResolve ==
  \E f \in ResolveFiles,
     al \in {EmptyMap, Put(EmptyMap, <<"a","b">>, SymY), Put(EmptyMap, <<"a","b">>, SymW)} :
    DefaultsExcept(<<f>>, <<>>, EmptyMap, al, <<Request("preview", f, al, EmptyMap)>>)

NextResolve == \E form \in Forms : PreviewOk(1, form)

SpecResolve == InitResolve /\ [][NextResolve]_vars

(* ------------------------------------------------------ bulk apply alone *)
BulkFounds ==
  { <<Cand(SymX, 900, "FINNHUB"), Cand(SymY, 500, "POLYGON")>>,
    <<Cand(SymY, 700, "POLYGON")>>,
    <<Cand(SymZ, NoScore, NoSource)>> }

BulkHoldings ==
  {Holding(nm, sym, cs) : nm \in {NameAb, NameAbPadded}, sym \in {Null, SymZ},
                          cs \in BulkFounds}
  \cup {Holding(<<>>, SymZ, <<Cand(SymY, 700, "POLYGON")>>), Holding(NameAb, Null, <<>>)}

BulkFiles == SeqsUpTo(BulkHoldings, MaxRows) \ {<<>>}

BulkQueries == {<<>>, <<"A","b"," ">>}
BulkStatusFilters == {"ALL", "AMBIGUOUS"}
BulkMinScores == {0, 700, 800}

\* a preview has completed; an earlier override and alias may exist already
InitBulk ==
  \E f \in BulkFiles, q \in BulkQueries, sf \in BulkStatusFilters, m \in BulkMinScores :
    \E earlier \in BOOLEAN :
      /\ file = <<f>>
      /\ rows = Normalize(ServerPreview(f, "input"), EmptyMap)
      /\ overrides = IF earlier THEN Put(EmptyMap, 0, SymW) ELSE EmptyMap
      /\ aliases = IF earlier THEN Put(EmptyMap, <<"a","b">>, SymW) ELSE EmptyMap
      /\ inflight = <<>>
      /\ error = NoError
      /\ loading = FALSE
      /\ statusFilter = sf
      /\ query = q
      /\ qDebounced = q
      /\ bulkMinScore = m
      /\ drawerRow = NoRow
      /\ pendingChanges = <<>>
      /\ commitOpen = FALSE
      /\ logs = NoLogs
      /\ lastRun = LastRunOf(file, rows)
      /\ useLocalMaps = FALSE

NextBulk == BulkApply

SpecBulk == InitBulk /\ [][NextBulk]_vars

(* ------------------------------------------------ manual overrides alone *)
OverrideHoldings ==
  { Holding(NameAb, Null, <<Cand(SymX, 930, "FINNHUB"), Cand(SymY, 410, "POLYGON")>>),
    Holding(NameAbPadded, SymZ, <<Cand(SymY, 700, "POLYGON")>>),
    Holding(<<>>, SymZ, <<Cand(SymY, 700, "POLYGON")>>) }

OverrideFiles == SeqsUpTo(OverrideHoldings, MaxRows) \ {<<>>}

\* a preview has completed; aliases learned in earlier sessions may be stored
InitOverride ==
  \E f \in OverrideFiles, earlier \in BOOLEAN :
    LET al == IF earlier
              THEN Put(Put(EmptyMap, <<"a","b">>, SymW), <<"c","o">>, SymW)
              ELSE EmptyMap
    IN DefaultsExcept(<<f>>, Normalize(ServerPreview(f, "input"), al), EmptyMap, al, <<>>)

NextOverride ==
  \/ \E i \in 1..MaxRows, value \in {<<>>, SymX, SymY} : SelectOverride(i, value)
  \/ \E i \in 1..MaxRows : OpenDrawer(i)
  \/ \E value \in {<<>>, SymX, SymY} : DrawerApply(value)
  \/ CloseDrawer

SpecOverride == InitOverride /\ [][NextOverride]_vars

(* ------------------------------------------- every writer of the aliases *)
\* manual overrides, bulk apply and reset over a completed preview
NextWriters ==
  \/ NextOverride
  \/ BulkApply
  \/ ResetAll

SpecWriters == InitOverride /\ [][NextWriters]_vars

(* ------------------------------------- everything that writes an override *)
\* file selections and their responses, manual overrides (table and drawer),
\* bulk apply and reset, from a previewed file with one override
NextKeys ==
  \/ NextWriters
  \/ \E f \in Files : ChooseFile(f)
  \/ \E k \in 1..MaxInflight : PreviewOk(k, "input")

SpecKeys == InitFail /\ [][NextKeys]_vars

(* ------------------------------------------------- requests that overlap *)
\* previews and commits are sent and answered in any order
NextBusy ==
  \/ \E f \in Files : ChooseFile(f)
  \/ \E k \in 1..MaxInflight : PreviewOk(k, "input")
  \/ \E k \in 1..MaxInflight : PreviewFails(k, "Failed to fetch")
  \/ OpenCommitPreview
  \/ CloseCommitPreview
  \/ CommitAndDownload
  \/ \E k \in 1..MaxInflight, msg \in CommitOutcomes : CommitResponse(k, msg)

SpecBusy == InitGuard /\ [][NextBusy]_vars

(* ------------------------------------------------------- sessions and resets *)
\* a fresh application: files are previewed, overrides teach aliases, the
\* search, the status filter and the Local Maps preference are set, and
\* everything is reset
NextReset ==
  \/ ChooseFile(FileA)
  \/ \E k \in 1..MaxInflight : PreviewOk(k, "input")
  \/ \E k \in 1..MaxInflight : PreviewFails(k, "Failed to fetch")
  \/ \E i \in 1..MaxRows, value \in {SymX, SymY} : SelectOverride(i, value)
  \/ SetStatusFilter("AMBIGUOUS")
  \/ SetQuery(<<"A","b">>)
  \/ Debounce
  \/ ToggleLocalMaps
  \/ ResetAll

SpecReset == Init /\ [][NextReset]_vars

(* ================================================================ claims *)
\* the alias key of a name, stated from the contract: the name without its
\* surrounding blanks, in lower case
ExpectedKey(name) ==
  LET t == OrEmpty(name)
      inked == {i \in 1..Len(t) : t[i] # " "}
  IN IF inked = {} THEN <<>>
     ELSE LET a == CHOOSE i \in inked : \A j \in inked : i <= j
              b == CHOOSE i \in inked : \A j \in inked : i >= j
          IN toLowerCase(SubSeq(t, a, b))

\* two ticker spellings that differ in case only
SameTicker(a, b) == a # Null /\ b # Null /\ toUpperCase(a) = toUpperCase(b)

\* seq without its j-th element
Without(seq, j) == [i \in 1..(Len(seq) - 1) |-> IF i < j THEN seq[i] ELSE seq[i + 1]]

(* ---- C1 ---- *)
\* C1: the risk of a pending change is HIGH when its score is missing, LOW when
\* score >= 0.85, MEDIUM when 0.60 <= score < 0.85 and HIGH when score < 0.60,
\* for every score and every source.
C1_RiskTiers ==
  commitOpen =>
    /\ Len(pendingChanges) = 1
    /\ LET c == rows[1].candidates[1]
           ch == pendingChanges[1]
       IN /\ ch.score = c.score /\ ch.source = c.source
          /\ (c.score = NoScore) => ch.risk = "HIGH"
          /\ (c.score # NoScore /\ c.score >= 850) => ch.risk = "LOW"
          /\ (c.score # NoScore /\ 600 <= c.score /\ c.score < 850) => ch.risk = "MEDIUM"
          /\ (c.score # NoScore /\ c.score < 600) => ch.risk = "HIGH"

C1_Witness ==
  /\ commitOpen
  /\ Len(pendingChanges) = 1
  /\ pendingChanges[1].score = 850
  /\ pendingChanges[1].source = "POLYGON"
  /\ pendingChanges[1].risk = "LOW"

(* ---- the alias boost, as seen after a preview of a one-row file ---- *)
PreviewDone == inflight = <<>> /\ Len(rows) = 1 /\ file # NoFile
\* the candidates as the response carried them
Served == ResolveCandidates(file[1][1])
\* the row's candidates after the alias boost
Boosted == rows[1].candidates
\* the symbol learned for the row's name, Null for none
LearnedSymbol == Lookup(aliases, ExpectedKey(file[1][1].Name))

\* C5: when a learned alias exists for the row's normalized name and a candidate
\* with that symbol (case-insensitively) is anywhere in the list with score s,
\* after the boost that candidate is first and its score is min(s + 0.05, 0.999).
C5_AliasEffect ==
  PreviewDone =>
    \A j \in 1..Len(Served) :
      (SameTicker(Served[j].symbol, LearnedSymbol) /\ Served[j].score # NoScore) =>
        /\ Boosted[1].symbol = Served[j].symbol
        /\ Boosted[1].source = Served[j].source
        /\ Boosted[1].score =
             (IF Served[j].score + 50 <= 999 THEN Served[j].score + 50 ELSE 999)

C5_Witness ==
  /\ PreviewDone
  /\ Len(Served) = 3
  /\ SameTicker(Served[3].symbol, LearnedSymbol)
  /\ Served[3].symbol # LearnedSymbol
  /\ Served[3].score = 400
  /\ Boosted[1].symbol = Served[3].symbol
  /\ Boosted[1].score = 450

\* C6: the boost never removes or hides a candidate: the list keeps its length,
\* and every candidate other than the matched one is still there with the same
\* symbol, score and source, in the same relative order.
C6_OthersKept ==
  PreviewDone =>
    /\ Len(Boosted) = Len(Served)
    /\ \/ Boosted = Served
       \/ \E j \in 1..Len(Served) :
            /\ SameTicker(Served[j].symbol, LearnedSymbol)
            /\ Boosted[1].symbol = Served[j].symbol
            /\ Tail(Boosted) = Without(Served, j)

C6_Witness ==
  /\ PreviewDone
  /\ Len(Served) = 3
  /\ SameTicker(Served[3].symbol, LearnedSymbol)
  /\ Boosted[1].symbol = Served[3].symbol
  /\ Boosted[2] = Served[1]
  /\ Boosted[3] = Served[2]

\* C7 as stated: applying the boost a second time changes nothing -- same top
\* candidate, no second +0.05.
C7_Idempotent ==
  PreviewDone =>
    ApplyAlias(aliases, ExpectedKey(file[1][1].Name), Boosted) = Boosted

\* C7, amended: a second application keeps the order of the first (same top
\* symbol, same other candidates) but adds the bonus again, leaving the top score
\* at min(s + 0.10, 0.999); the preview pass applies the boost once per row, so a
\* previewed row carries min(s + 0.05, 0.999).
C7_SecondCallAddsBonus ==
  PreviewDone =>
    LET twice == ApplyAlias(aliases, ExpectedKey(file[1][1].Name), Boosted)
    IN /\ Len(twice) = Len(Boosted)
       /\ \A i \in 1..Len(Boosted) : twice[i].symbol = Boosted[i].symbol
       /\ Len(Boosted) > 0 => Tail(twice) = Tail(Boosted)
       /\ \A j \in 1..Len(Served) :
            (SameTicker(Served[j].symbol, LearnedSymbol) /\ Served[j].score # NoScore) =>
              /\ Boosted[1].score =
                   (IF Served[j].score + 50 <= 999 THEN Served[j].score + 50 ELSE 999)
              /\ twice[1].score =
                   (IF Served[j].score + 100 <= 999 THEN Served[j].score + 100 ELSE 999)

C7_Witness ==
  /\ PreviewDone
  /\ Len(Served) >= 2
  /\ SameTicker(Served[2].symbol, LearnedSymbol)
  /\ Served[2].score = 400
  /\ Boosted[1].score = 450
  /\ ApplyAlias(aliases, ExpectedKey(file[1][1].Name), Boosted)[1].score = 500

\* C8: when the learned symbol is none of the row's candidates, or no alias
\* exists for the name, the boost is a silent no-op: same order, same scores,
\* no error.
C8_NoMatchNoOp ==
  PreviewDone =>
    ((\A j \in 1..Len(Served) : ~SameTicker(Served[j].symbol, LearnedSymbol)) =>
       Boosted = Served /\ error = NoError)

C8_Witness ==
  /\ PreviewDone
  /\ LearnedSymbol = SymX
  /\ Len(Served) = 2
  /\ \A j \in 1..Len(Served) : ~SameTicker(Served[j].symbol, LearnedSymbol)
  /\ Boosted = Served

(* ---- the commit planner, as seen once the commit preview is open ---- *)
\* the pending changes of the row with index idx
ChangesFor(idx) == {k \in 1..Len(pendingChanges) : pendingChanges[k].index = idx}

\* C2: every row that has an entry in the overrides map gets a pending change
\* whose toSymbol is the override, whatever the row's status and whatever the
\* score of the overridden candidate (also when no candidate carries the symbol).
C2_OverrideHonored ==
  commitOpen =>
    \A i \in 1..Len(rows) :
      rows[i].index \in DOMAIN overrides =>
        \E k \in ChangesFor(rows[i].index) :
          pendingChanges[k].toSymbol = overrides[rows[i].index]

C2_Witness ==
  /\ commitOpen
  /\ \E i \in 1..Len(rows) :
       /\ rows[i].status = "NOT_FOUND"
       /\ rows[i].index \in DOMAIN overrides
       /\ overrides[rows[i].index] = SymW
       /\ \E k \in ChangesFor(rows[i].index) :
            /\ pendingChanges[k].toSymbol = SymW
            /\ pendingChanges[k].score = NoScore
            /\ pendingChanges[k].risk = "HIGH"

\* C3: every pending change's toSymbol is the user's override for its row or the
\* top candidate's symbol of a FILLED row; a row that is AMBIGUOUS, NOT_FOUND or
\* UNCHANGED and has no override contributes no pending change.
C3_NothingFabricated ==
  commitOpen =>
    /\ \A k \in 1..Len(pendingChanges) :
         \E i \in 1..Len(rows) :
           /\ rows[i].index = pendingChanges[k].index
           /\ \/ /\ rows[i].index \in DOMAIN overrides
                 /\ pendingChanges[k].toSymbol = overrides[rows[i].index]
              \/ /\ rows[i].status = "FILLED"
                 /\ Len(rows[i].candidates) > 0
                 /\ pendingChanges[k].toSymbol = rows[i].candidates[1].symbol
    /\ \A i \in 1..Len(rows) :
         (rows[i].status \in {"AMBIGUOUS", "NOT_FOUND", "UNCHANGED"}
            /\ rows[i].index \notin DOMAIN overrides) =>
           ChangesFor(rows[i].index) = {}

C3_Witness ==
  /\ commitOpen
  /\ Len(rows) = 2
  /\ rows[1].status = "AMBIGUOUS" /\ Len(rows[1].candidates) = 2
  /\ rows[2].status = "FILLED"
  /\ overrides = EmptyMap
  /\ Len(pendingChanges) = 1
  /\ pendingChanges[1].index = 1
  /\ pendingChanges[1].toSymbol = SymX

SetsOverride(idx, v) ==
  \/ \E i \in 1..Len(rows) : rows[i].index = idx /\ SelectOverride(i, v)
  \/ drawerRow # NoRow /\ drawerRow[1].index = idx /\ DrawerApply(v)

\* the rows (positions) carrying index idx
RowsWithIndex(idx) == {i \in 1..Len(rows) : rows[i].index = idx}

\* C9: setting a non-empty override on a row whose name is non-blank records the
\* alias trim+lowercase(name) -> chosen symbol, overwriting any previous alias of
\* that normalized name and leaving the aliases of all other names unchanged;
\* names that differ only in case or surrounding whitespace share one entry.
C9_OverrideLearnsAlias ==
  [][ \A idx \in 0..MaxRows, v \in {SymX, SymY} :
        \A i \in RowsWithIndex(idx) :
          (SetsOverride(idx, v) /\ ~Blank(NameOf(rows[i]))) =>
            LET key == ExpectedKey(NameOf(rows[i]))
            IN /\ DOMAIN aliases' = DOMAIN aliases \cup {key}
               /\ aliases'[key] = v
               /\ \A k \in DOMAIN aliases : k # key => aliases'[k] = aliases[k]
               /\ Len(key) > 0 /\ key[1] # " " /\ key[Len(key)] # " "
               /\ key = toLowerCase(key)
    ]_vars

C9_Witness ==
  /\ Len(rows) = 2
  /\ NameOf(rows[1]) = NameAb
  /\ NameOf(rows[2]) = NameAbPadded
  /\ DOMAIN overrides = {0, 1}
  /\ overrides[0] = SymX
  /\ overrides[1] = SymY
  /\ DOMAIN aliases = {<<"a","b">>, <<"c","o">>}
  /\ aliases[<<"a","b">>] = SymY
  /\ aliases[<<"c","o">>] = SymW

(* ---- bulk apply ---- *)
\* a row the claim speaks of: visible under the active filter, FILLED or AMBIGUOUS,
\* with a top candidate whose score is >= the threshold
Qualifies(r) ==
  /\ Visible(r, qDebounced, statusFilter)
  /\ r.status \in {"FILLED", "AMBIGUOUS"}
  /\ Len(r.candidates) > 0
  /\ r.candidates[1].score # NoScore
  /\ r.candidates[1].score >= bulkMinScore

\* a row the pass overrides: as above, or with a top candidate that has no score
Applied(r) ==
  /\ Visible(r, qDebounced, statusFilter)
  /\ r.status \in {"FILLED", "AMBIGUOUS"}
  /\ Len(r.candidates) > 0
  /\ (r.candidates[1].score = NoScore \/ r.candidates[1].score >= bulkMinScore)

\* C10 as stated: bulk apply sets the override of every qualifying row to its top
\* candidate's symbol and records the alias normalized-name -> that symbol.
C10_OverridesAndAliases ==
  [][ BulkApply =>
        \A i \in 1..Len(rows) :
          Qualifies(rows[i]) =>
            /\ Lookup(overrides', rows[i].index) = rows[i].candidates[1].symbol
            /\ Lookup(aliases', ExpectedKey(NameOf(rows[i]))) = rows[i].candidates[1].symbol
    ]_vars

\* C10, amended: bulk apply sets the override of every qualifying row to its top
\* candidate's symbol (replacing any earlier override); when the row's name is
\* non-blank it records the alias normalized-name -> that symbol, unless a later
\* row with the same normalized name is overridden in the same pass, whose top
\* symbol the alias then holds; for a blank name it records no alias.
C10_OverridesAndLastAlias ==
  [][ BulkApply =>
        \A i \in 1..Len(rows) :
          Qualifies(rows[i]) =>
            /\ Lookup(overrides', rows[i].index) = rows[i].candidates[1].symbol
            /\ LET key == ExpectedKey(NameOf(rows[i]))
                   sharing == {j \in i..Len(rows) :
                                 Applied(rows[j]) /\ ExpectedKey(NameOf(rows[j])) = key}
                   last == CHOOSE j \in sharing : \A m \in sharing : m <= j
               IN IF Blank(NameOf(rows[i]))
                  THEN key = <<>> /\ key \notin DOMAIN aliases'
                  ELSE Lookup(aliases', key) = rows[last].candidates[1].symbol
    ]_vars

C10_Witness ==
  /\ Len(rows) = 2
  /\ bulkMinScore = 800
  /\ rows[1].status = "AMBIGUOUS" /\ NameOf(rows[1]) = NameAbPadded
  /\ rows[1].candidates[1] = Cand(SymX, 900, "FINNHUB")
  /\ rows[2].status = "FILLED" /\ rows[2].candidates = <<Cand(SymY, 700, "POLYGON")>>
  /\ DOMAIN overrides = {0}
  /\ overrides[0] = SymX
  /\ qDebounced # <<>>
  /\ Lookup(aliases, <<"a","b">>) = SymX

\* C11: bulk apply leaves untouched (override and alias unchanged) every row
\* that is not visible under the filter, has a status other than FILLED or
\* AMBIGUOUS, has no candidates, or whose top-candidate score is not >= the
\* threshold, a top candidate without a numeric score included.
C11_OthersUntouched ==
  [][ BulkApply =>
        \A i \in 1..Len(rows) :
          ~Qualifies(rows[i]) =>
            /\ Lookup(overrides', rows[i].index) = Lookup(overrides, rows[i].index)
            /\ Lookup(aliases', ExpectedKey(NameOf(rows[i]))) =
                 Lookup(aliases, ExpectedKey(NameOf(rows[i])))
    ]_vars

(* ---- the order of the change-set ---- *)
\* C12: the pending changes are ordered by risk descending and, within equal
\* risk, by score descending: for every adjacent pair (a, b), rank(a.risk) >=
\* rank(b.risk), and if the risks are equal then a.score >= b.score (a missing
\* score counting below every number, as the comparator takes it).
C12_RiskThenScore ==
  commitOpen =>
    \A k \in 1..(Len(pendingChanges) - 1) :
      LET a == pendingChanges[k]
          b == pendingChanges[k + 1]
      IN /\ rk(a.risk) >= rk(b.risk)
         /\ a.risk = b.risk => a.score >= b.score

C12_Witness ==
  /\ commitOpen
  /\ Len(pendingChanges) = 2
  /\ pendingChanges[1].index = 1 /\ pendingChanges[1].risk = "HIGH"
  /\ pendingChanges[1].score = 500
  /\ pendingChanges[2].index = 0 /\ pendingChanges[2].risk = "HIGH"
  /\ pendingChanges[2].score = 300

C14_RiskMonotone ==
  commitOpen =>
    \A j, k \in 1..Len(pendingChanges) :
      LET a == pendingChanges[j]
          b == pendingChanges[k]
      IN (a.score # NoScore /\ b.score # NoScore /\ a.score < b.score) =>
           rk(a.risk) >= rk(b.risk)

C14_Witness ==
  /\ commitOpen
  /\ \E j, k \in 1..Len(pendingChanges) :
       /\ pendingChanges[j].score = 600 /\ pendingChanges[j].risk = "MEDIUM"
       /\ pendingChanges[k].score = 850 /\ pendingChanges[k].risk = "LOW"

(* ---- previews ---- *)
\* C15: a preview that fails reports an error and leaves the prior state
\* untouched: the rows and overrides that existed before the file was chosen are
\* the same after the failure. (Every request fails here, so the rows and the
\* overrides the user started with would have to be there whenever no request
\* is pending.)
C15_FailureKeepsPriorState ==
  (inflight = <<>> /\ error # NoError) =>
    /\ rows = PriorRows
    /\ overrides = PriorOverrides

\* a step of onChooseFile: the choice of a file, or the arrival of its response
ChooseFileStep ==
  \/ \E f \in Files : ChooseFile(f)
  \/ ChooseNoFile
  \/ \E k \in 1..MaxInflight, form \in Forms : PreviewOk(k, form)
  \/ \E k \in 1..MaxInflight, msg \in FailureMessages : PreviewFails(k, msg)

\* C17: the preview pass consults the learned aliases but never changes them:
\* the alias map after onChooseFile completes, successfully or not, is the alias
\* map before it.
C17_AliasesOnlyRead ==
  [][ ChooseFileStep => aliases' = aliases ]_vars

C17_Witness ==
  /\ inflight = <<>>
  /\ file = <<FileA>>
  /\ error = NoError
  /\ Lookup(aliases, <<"a","b">>) = SymXLow
  /\ rows[1].candidates[1] = Cand(SymX, 980, "FINNHUB")
  /\ rows[1].candidates[2] = Cand(SymY, 410, "POLYGON")

(* ---- the commit path ---- *)
\* C16: a failed precondition is surfaced before any write-back: with no
\* resolved rows the commit preview is not opened and no change-set is built,
\* and with no file selected commitAndDownload sends no commit request; in both
\* cases nothing is written or downloaded.
C16_NothingWithoutRowsOrFile ==
  [][ /\ (OpenCommitPreview /\ Len(rows) = 0) =>
           /\ commitOpen' = commitOpen
           /\ pendingChanges' = pendingChanges
           /\ inflight' = inflight
      /\ (CommitAndDownload /\ file = NoFile) =>
           /\ inflight' = inflight
           /\ loading' = loading
    ]_vars

\* the commit preview is open over a reset application: no file, no rows
C16_Witness ==
  /\ commitOpen
  /\ file = NoFile
  /\ rows = <<>>
  /\ pendingChanges # <<>>
  /\ inflight = <<>>

(* ---- clearing an override ---- *)
\* C18: clearing a row's override (setting it to the empty value) removes only
\* that row's entry from the overrides map and leaves the alias learned for the
\* row's name in place; the aliases change only when an override is set.
C18_ClearKeepsAlias ==
  [][ /\ \A idx \in 0..MaxRows :
           SetsOverride(idx, <<>>) =>
             /\ DOMAIN overrides' = DOMAIN overrides \ {idx}
             /\ \A k \in DOMAIN overrides' : overrides'[k] = overrides[k]
             /\ aliases' = aliases
      /\ aliases' # aliases =>
           \E idx \in 0..MaxRows, v \in {SymX, SymY} : SetsOverride(idx, v)
    ]_vars

\* row 0 was overridden to X and cleared again: the alias is still there
C18_Witness ==
  /\ Len(rows) = 2
  /\ drawerRow = NoRow
  /\ DOMAIN overrides = {1}
  /\ overrides[1] = SymY
  /\ Lookup(aliases, <<"a","b">>) = SymX

(* ---- the statuses of previewed rows ---- *)
PreviewStatuses == {"FILLED", "AMBIGUOUS", "NOT_FOUND", "UNCHANGED"}

\* the preview of the chosen file has arrived
Previewed == inflight = <<>> /\ file # NoFile /\ Len(rows) = Len(file[1])

C21_NotFoundIffNoCandidate ==
  Previewed =>
    /\ error = NoError
    /\ \A i \in 1..Len(rows) :
         (Blank(SymbolOf(rows[i])) /\ ~Blank(NameOf(rows[i]))) =>
           /\ rows[i].status = "NOT_FOUND" <=> rows[i].candidates = <<>>
           /\ rows[i].candidates # <<>> => rows[i].status = "AMBIGUOUS"

C21_Witness ==
  /\ Previewed
  /\ Len(rows) = 2
  /\ Lookup(aliases, <<"a","b">>) = SymW
  /\ NameOf(rows[1]) = NameAb /\ SymbolOf(rows[1]) = Null
  /\ rows[1].status = "NOT_FOUND" /\ rows[1].candidates = <<>>
  /\ NameOf(rows[2]) = NameAb /\ SymbolOf(rows[2]) = NameSpaces
  /\ rows[2].status = "AMBIGUOUS" /\ Len(rows[2].candidates) = 1

\* the raw candidates the adapters reported for the row's name
RawOf == file[1][1].raw
\* the final score the rule gives a raw candidate
RuleScore(r) ==
  IF r.source \in TrustedSources THEN Min(r.score + TrustBonus, TrustCeiling) ELSE r.score
\* every aggregated candidate carries the rule's score of a raw candidate of its
\* symbol and source, and every raw symbol is among the aggregated candidates
TrustRule ==
  /\ \A i \in 1..Len(Boosted) :
       /\ \E j \in 1..Len(RawOf) :
            /\ RawOf[j].symbol = Boosted[i].symbol
            /\ RawOf[j].source = Boosted[i].source
            /\ Boosted[i].score = RuleScore(RawOf[j])
       /\ Boosted[i].source \in TrustedSources => Boosted[i].score <= TrustCeiling
  /\ \A j \in 1..Len(RawOf) : \E i \in 1..Len(Boosted) : Boosted[i].symbol = RawOf[j].symbol
ExampleRaw == <<Cand(SymX, 900, "FINNHUB"), Cand(SymY, 400, "POLYGON")>>
TopRiskLow ==
  /\ riskOf(Boosted[1].score, Boosted[1].source) = "LOW"
  /\ (commitOpen /\ pendingChanges # <<>>) => pendingChanges[1].risk = "LOW"

RowsAreOf(f) ==
  /\ rows # <<>>
  /\ Len(rows) = Len(f)
  /\ \A i \in 1..Len(f) :
       OrEmpty(NameOf(rows[i])) = OrEmpty(f[i].Name) /\ OrEmpty(SymbolOf(rows[i])) = OrEmpty(f[i].Symbol)

KeyOfIndex(idx) == ExpectedKey(NameOfIndex(rows, idx))

C25_RowsOfSelectedFile ==
  (\A k \in 1..Len(inflight) : inflight[k].kind # "preview") =>
    /\ file = NoFile => rows = <<>>
    /\ (file # NoFile /\ rows # <<>>) => RowsAreOf(file[1])

(* ---- what the confirmed commit sends ---- *)
\* C26: the overrides map sent in the commit request equals the overrides map
\* from which the confirmed pending change-set was built: while the commit
\* preview stays open no step changes overrides or the selected file, and the
\* request a confirmation sends carries the overrides of the change-set on display.
C26_ConfirmedOverridesSent ==
  [][ /\ (commitOpen /\ commitOpen') => (overrides' = overrides /\ file' = file)
      /\ (CommitAndDownload /\ Len(inflight') = Len(inflight) + 1) =>
           /\ pendingChanges = BuildChanges(rows, inflight'[Len(inflight')].overrides)
           /\ inflight'[Len(inflight')].file = file[1]
    ]_vars

(* ---- the keys and values of the overrides ---- *)
\* C27: in every reachable state each key of the overrides map is the index of a
\* row in the current rows, and its value is the symbol of one of that row's
\* candidates -- after any sequence of file selection, preview response, manual
\* override (table or row drawer), bulk apply and reset.
C27_OverridesPointAtCandidates ==
  \A key \in DOMAIN overrides :
    \E i \in 1..Len(rows) :
      /\ rows[i].index = key
      /\ \E j \in 1..Len(rows[i].candidates) : rows[i].candidates[j].symbol = overrides[key]

(* ---- the loading flag ---- *)
\* C28: the loading flag is true in every state in which a preview or commit
\* request is in flight, also when two requests overlap, and false once none is
\* in flight.
C28_LoadingWhileInFlight ==
  loading <=> inflight # <<>>

(* ---- reset ---- *)
\* the symbol learned for the name of a previewed row, Null for none
LearnedFor(r) == Lookup(aliases, ExpectedKey(NameOf(r)))

\* C29: resetAll clears the selected file, rows, overrides, error, search query,
\* status filter, activity log and last-run record, and leaves the learned
\* aliases and the local-maps preference unchanged, so aliases learned before a
\* reset still re-rank candidates in the next preview: whenever the preview of a
\* request sent under the stored aliases arrives, every row with a candidate of
\* the symbol learned for its name has that candidate on top.
C29_ResetKeepsAliases ==
  [][ /\ ResetAll =>
           /\ file' = NoFile /\ rows' = <<>> /\ overrides' = EmptyMap
           /\ error' = NoError /\ query' = <<>> /\ statusFilter' = "ALL"
           /\ logs' = NoLogs /\ lastRun' = EmptyMap
           /\ aliases' = aliases /\ useLocalMaps' = useLocalMaps
      /\ \A k \in 1..Len(inflight) :
           (PreviewOk(k, "input") /\ inflight[k].aliases = aliases) =>
             \A i \in 1..Len(rows') :
               (\E j \in 1..Len(rows'[i].candidates) :
                  SameTicker(rows'[i].candidates[j].symbol, LearnedFor(rows'[i])))
               => SameTicker(rows'[i].candidates[1].symbol, LearnedFor(rows'[i]))
    ]_vars

\* everything has just been reset: the alias an override taught and the
\* Local Maps preference are still there
C29_Witness ==
  /\ file = NoFile /\ rows = <<>> /\ overrides = EmptyMap
  /\ error = NoError /\ query = <<>> /\ statusFilter = "ALL"
  /\ logs = NoLogs /\ lastRun = EmptyMap
  /\ inflight = <<>>
  /\ Lookup(aliases, <<"a","b">>) = SymY
  /\ useLocalMaps

====
